---- MODULE Spec2Model ----
(***************************************************************************)
(* The package __init__.py of SCG_LocalVLM: a star import of the sibling   *)
(* module `nodes` followed by two dictionary displays bound to the module  *)
(* globals NODE_CLASS_MAPPINGS and NODE_DISPLAY_NAME_MAPPINGS.             *)
(*                                                                         *)
(* The module body is executed statement by statement in a module          *)
(* namespace `ns` (a Python dict: a name is bound iff it is in DOMAIN ns). *)
(* A dictionary is a function from its keys to its values.  The host       *)
(* imports the package, may reload it, and may write to the published      *)
(* dictionaries between loads.                                             *)
(***************************************************************************)
EXTENDS Integers, Sequences, FiniteSets, TLC

VARIABLES
    pc,          \* statement about to run: "idle", "import", "class_map", "display_map"
    mode,        \* "load" (first import, fresh namespace) or "reload" (same namespace)
    ns,          \* the module namespace
    registered,  \* the import returned normally: the host holds the module
    error,       \* the exception that ended the last load, and the line that raised it
    nodes_mod,   \* sys.modules entry of the sibling module `nodes`
    loads,       \* loads started so far
    writes,      \* host writes to the mappings since the last load started
    first,       \* history: the mappings as the first successful load built them
    prev         \* history: the mappings as they were when the last reload started

vars == <<pc, mode, ns, registered, error, nodes_mod, loads, writes, first, prev>>

\* ------------------------------------------------------------------ bounds

MaxLoads == 3
MaxHostWrites == 2

\* ------------------------------------------------------------- dictionaries

EmptyDict == [k \in {} |-> "none"]

\* d[key] = value: a new key is added, an existing key is overwritten.
SetItem(d, key, value) ==
    [k \in DOMAIN d \cup {key} |-> IF k = key THEN value ELSE d[k]]

\* A dictionary display {k1: v1, k2: v2, ...}: the pairs are inserted into a new,
\* empty dictionary in the order written, so a later duplicate key wins.
RECURSIVE DictDisplay(_)
DictDisplay(pairs) ==
    IF pairs = <<>> THEN EmptyDict
    ELSE LET n == Len(pairs)
         IN  SetItem(DictDisplay(SubSeq(pairs, 1, n - 1)), pairs[n].key, pairs[n].value)

\* ------------------------------------------------------ the sibling module

\* The class object the sibling module binds to a class name.
ClassObject(name) == "<class " \o name \o ">"

\* The names the two displays reference and the sibling module has to provide.
ImportedNames == {"QwenVL", "Qwen"}

\* What a first import of `nodes` can bind: any subset of the referenced names.
NodesExports == {[n \in S |-> ClassObject(n)] : S \in SUBSET ImportedNames}

NodesAbsent == [loaded |-> FALSE, exports |-> EmptyDict]

\* ------------------------------------------------------------ the literals

\* Variant: the two new identifiers point at the other class.
ClassLiteral_swapped ==
    << [key |-> "Qwen2.5VL", name |-> "Qwen",   line |-> 6],
       [key |-> "Qwen2.5",   name |-> "QwenVL", line |-> 7],
       [key |-> "QwenVL",    name |-> "QwenVL", line |-> 8],
       [key |-> "Qwen",      name |-> "Qwen",   line |-> 9] >>

\* Variant: a fifth identifier is registered.
ClassLiteral_extra ==
    << [key |-> "Qwen2.5VL", name |-> "QwenVL", line |-> 6],
       [key |-> "Qwen2.5",   name |-> "Qwen",   line |-> 7],
       [key |-> "QwenVL",    name |-> "QwenVL", line |-> 8],
       [key |-> "Qwen",      name |-> "Qwen",   line |-> 9],
       [key |-> "Qwen3",     name |-> "Qwen",   line |-> 10] >>

\* Variant: the entry for "Qwen" is left out.
ClassLiteral_missing ==
    << [key |-> "Qwen2.5VL", name |-> "QwenVL", line |-> 6],
       [key |-> "Qwen2.5",   name |-> "Qwen",   line |-> 7],
       [key |-> "QwenVL",    name |-> "QwenVL", line |-> 8] >>

\* Variant: "Qwen" is written twice, with two different classes.
ClassLiteral_duplicate ==
    << [key |-> "Qwen2.5VL", name |-> "QwenVL", line |-> 6],
       [key |-> "Qwen",      name |-> "QwenVL", line |-> 7],
       [key |-> "QwenVL",    name |-> "QwenVL", line |-> 8],
       [key |-> "Qwen",      name |-> "Qwen",   line |-> 9],
       [key |-> "Qwen2.5",   name |-> "Qwen",   line |-> 10] >>

\* Variant: the first two entries are written in the other order.
ClassLiteral_reordered ==
    << [key |-> "Qwen2.5",   name |-> "Qwen",   line |-> 6],
       [key |-> "Qwen2.5VL", name |-> "QwenVL", line |-> 7],
       [key |-> "QwenVL",    name |-> "QwenVL", line |-> 8],
       [key |-> "Qwen",      name |-> "Qwen",   line |-> 9] >>

\* Lines 5-10: the entries of the NODE_CLASS_MAPPINGS display as written; each value
\* is a global name, looked up when the display is evaluated.
ClassLiteral ==
    << [key |-> "Qwen2.5VL", name |-> "QwenVL", line |-> 6],
       [key |-> "Qwen2.5",   name |-> "Qwen",   line |-> 7],
       [key |-> "QwenVL",    name |-> "QwenVL", line |-> 8],
       [key |-> "Qwen",      name |-> "Qwen",   line |-> 9] >>

\* Variant: the entry for "Qwen" is left out.
DisplayLiteral_omitted ==
    << [key |-> "Qwen2.5VL", value |-> "Qwen2.5VL"],
       [key |-> "Qwen2.5",   value |-> "Qwen2.5"],
       [key |-> "QwenVL",    value |-> "QwenVL"] >>

\* Variant: one display name is reworded.
DisplayLiteral_friendly ==
    << [key |-> "Qwen2.5VL", value |-> "Qwen2.5 VL"],
       [key |-> "Qwen2.5",   value |-> "Qwen2.5"],
       [key |-> "QwenVL",    value |-> "QwenVL"],
       [key |-> "Qwen",      value |-> "Qwen"] >>

\* Lines 13-18: the entries of the NODE_DISPLAY_NAME_MAPPINGS display; the values
\* are string literals.
DisplayLiteral ==
    << [key |-> "Qwen2.5VL", value |-> "Qwen2.5VL"],
       [key |-> "Qwen2.5",   value |-> "Qwen2.5"],
       [key |-> "QwenVL",    value |-> "QwenVL"],
       [key |-> "Qwen",      value |-> "Qwen"] >>

\* -------------------------------------------------------- name resolution

\* The entries of the class display whose value name is not bound in namespace n.
Unbound(n) == {i \in DOMAIN ClassLiteral : ClassLiteral[i].name \notin DOMAIN n}

\* The entries are evaluated top to bottom: the first unbound name raises NameError.
FirstUnbound(n) == CHOOSE i \in Unbound(n) : \A j \in Unbound(n) : i <= j

\* The key/value pairs of the class display with every name looked up in n.
Resolved(n, literal) ==
    [i \in DOMAIN literal |-> [key |-> literal[i].key, value |-> n[literal[i].name]]]

\* Variant: the display is merged into the dictionary already bound, as
\* NODE_CLASS_MAPPINGS.update({...}) would.
ClassMappingsValue_merged(n) ==
    LET new == DictDisplay(Resolved(n, ClassLiteral))
        old == IF "NODE_CLASS_MAPPINGS" \in DOMAIN n
               THEN n["NODE_CLASS_MAPPINGS"] ELSE EmptyDict
    IN  [k \in DOMAIN old \cup DOMAIN new |-> IF k \in DOMAIN new THEN new[k] ELSE old[k]]

\* The value lines 5-10 bind to NODE_CLASS_MAPPINGS: a new dictionary, built from
\* the display alone.
ClassMappingsValue(n) == DictDisplay(Resolved(n, ClassLiteral))

\* The value lines 13-18 bind to NODE_DISPLAY_NAME_MAPPINGS.
DisplayMappingsValue == DictDisplay(DisplayLiteral)

\* name = value in namespace n.
Bind(n, name, value) == SetItem(n, name, value)

\* The assignment target of line 5.
ClassTarget == "NODE_CLASS_MAPPINGS"

\* Variant: line 13 assigns to the name of line 5.
DisplayTarget_typo == "NODE_CLASS_MAPPINGS"

\* The assignment target of line 13.
DisplayTarget == "NODE_DISPLAY_NAME_MAPPINGS"

\* The dictionary bound to a name of namespace n; empty when the name is unbound.
Mapping(n, name) == IF name \in DOMAIN n THEN n[name] ELSE EmptyDict

\* from .nodes import *: every name the module exports is bound in n.
StarImport(n, exports) ==
    [k \in DOMAIN n \cup DOMAIN exports |-> IF k \in DOMAIN exports THEN exports[k] ELSE n[k]]

\* ------------------------------------------------------- statement order

\* Variant: the display-name mapping is built before the class mapping.
NextStmt_display_first(s) ==
    CASE s = "import"      -> "display_map"
      [] s = "display_map" -> "class_map"
      [] s = "class_map"   -> "idle"

\* The statement that follows statement s in the module body; "idle" after the last.
NextStmt(s) ==
    CASE s = "import"      -> "class_map"
      [] s = "class_map"   -> "display_map"
      [] s = "display_map" -> "idle"

NoError == [exc |-> "none", line |-> 0]

\* Statement s ran to its end in namespace n2: go on, or return to the host.
Advance(s, n2) ==
    /\ ns' = n2
    /\ pc' = NextStmt(s)
    /\ registered' = IF NextStmt(s) = "idle" THEN TRUE ELSE registered
    /\ first' = IF NextStmt(s) = "idle" /\ ~first.set
                THEN [set |-> TRUE, ncm |-> Mapping(n2, "NODE_CLASS_MAPPINGS"),
                      ndnm |-> Mapping(n2, "NODE_DISPLAY_NAME_MAPPINGS")]
                ELSE first
    /\ UNCHANGED <<mode, error, loads, writes, prev>>

\* An exception leaves the module body: the namespace stays as the statements run
\* so far left it. A first import that fails hands no module to the host; a failed
\* reload leaves the module the host already holds in place.
Raise(exc, line) ==
    /\ pc' = "idle"
    /\ error' = [exc |-> exc, line |-> line]
    /\ registered' = IF mode = "load" THEN FALSE ELSE registered
    /\ UNCHANGED <<mode, ns, loads, writes, first, prev>>

\* ------------------------------------------------------------------ state

NoSnapshot == [set |-> FALSE, ncm |-> EmptyDict, ndnm |-> EmptyDict]

Init ==
    /\ pc = "idle"
    /\ mode = "load"
    /\ ns = EmptyDict
    /\ registered = FALSE
    /\ error = NoError
    /\ nodes_mod = NodesAbsent
    /\ loads = 0
    /\ writes = 0
    /\ first = NoSnapshot
    /\ prev = NoSnapshot

\* The host imports the package: the body runs in a new, empty namespace.
Load ==
    /\ pc = "idle"
    /\ ~registered
    /\ loads < MaxLoads
    /\ pc' = "import"
    /\ mode' = "load"
    /\ ns' = EmptyDict
    /\ error' = NoError
    /\ loads' = loads + 1
    /\ writes' = 0
    /\ UNCHANGED <<registered, nodes_mod, first, prev>>

\* The host reloads the package: the body runs again in the namespace it has.
Reload ==
    /\ pc = "idle"
    /\ registered
    /\ loads < MaxLoads
    /\ pc' = "import"
    /\ mode' = "reload"
    /\ error' = NoError
    /\ loads' = loads + 1
    /\ writes' = 0
    /\ prev' = [set |-> TRUE, ncm |-> Mapping(ns, "NODE_CLASS_MAPPINGS"),
                ndnm |-> Mapping(ns, "NODE_DISPLAY_NAME_MAPPINGS")]
    /\ UNCHANGED <<ns, registered, nodes_mod, first>>

\* Line 1, `nodes` already in sys.modules: its names are bound again.
ImportNodesCached ==
    /\ pc = "import"
    /\ nodes_mod.loaded
    /\ Advance("import", StarImport(ns, nodes_mod.exports))
    /\ UNCHANGED nodes_mod

\* Line 1, `nodes` not yet imported and its body runs to its end.
ImportNodesFresh ==
    /\ pc = "import"
    /\ ~nodes_mod.loaded
    /\ \E exports \in NodesExports :
          /\ nodes_mod' = [loaded |-> TRUE, exports |-> exports]
          /\ Advance("import", StarImport(ns, exports))

\* Line 1, `nodes` cannot be imported.
ImportNodesFail ==
    /\ pc = "import"
    /\ ~nodes_mod.loaded
    /\ Raise("ImportError", 1)
    /\ UNCHANGED nodes_mod

\* Lines 5-10 with every referenced name bound.
BuildClassMappings ==
    /\ pc = "class_map"
    /\ Unbound(ns) = {}
    /\ Advance("class_map", Bind(ns, ClassTarget, ClassMappingsValue(ns)))
    /\ UNCHANGED nodes_mod

\* Lines 5-10 with a referenced name unbound.
BuildClassMappingsNameError ==
    /\ pc = "class_map"
    /\ Unbound(ns) # {}
    /\ Raise("NameError", ClassLiteral[FirstUnbound(ns)].line)
    /\ UNCHANGED nodes_mod

\* Lines 13-18.
BuildDisplayMappings ==
    /\ pc = "display_map"
    /\ Advance("display_map", Bind(ns, DisplayTarget, DisplayMappingsValue))
    /\ UNCHANGED nodes_mod

\* ------------------------------------------------------------------- host

HostKeys == {"Qwen2.5VL", "Qwen", "Extra"}
HostClassValues == {ClassObject("Qwen"), ClassObject("Other")}
HostDisplayValues == {"Qwen", "Custom"}

\* The host writes an entry of a published mapping.
HostWriteClass ==
    /\ pc = "idle"
    /\ registered
    /\ writes < MaxHostWrites
    /\ "NODE_CLASS_MAPPINGS" \in DOMAIN ns
    /\ \E k \in HostKeys, v \in HostClassValues :
          ns' = [ns EXCEPT !["NODE_CLASS_MAPPINGS"] = SetItem(@, k, v)]
    /\ writes' = writes + 1
    /\ UNCHANGED <<pc, mode, registered, error, nodes_mod, loads, first, prev>>

HostWriteDisplay ==
    /\ pc = "idle"
    /\ registered
    /\ writes < MaxHostWrites
    /\ "NODE_DISPLAY_NAME_MAPPINGS" \in DOMAIN ns
    /\ \E k \in HostKeys, v \in HostDisplayValues :
          ns' = [ns EXCEPT !["NODE_DISPLAY_NAME_MAPPINGS"] = SetItem(@, k, v)]
    /\ writes' = writes + 1
    /\ UNCHANGED <<pc, mode, registered, error, nodes_mod, loads, first, prev>>

Next ==
    \/ Load
    \/ Reload
    \/ ImportNodesCached
    \/ ImportNodesFresh
    \/ ImportNodesFail
    \/ BuildClassMappings
    \/ BuildClassMappingsNameError
    \/ BuildDisplayMappings
    \/ HostWriteClass
    \/ HostWriteDisplay

Spec == Init /\ [][Next]_vars

\* ----------------------------------------------------------------- claims

\* The four identifiers the package declares.
Identifiers == {"Qwen2.5VL", "Qwen2.5", "QwenVL", "Qwen"}

\* The two published mappings as the namespace holds them.
ncm == Mapping(ns, "NODE_CLASS_MAPPINGS")
ndnm == Mapping(ns, "NODE_DISPLAY_NAME_MAPPINGS")

\* A load has returned normally and the host has not written to the mappings since.
Loaded == pc = "idle" /\ registered /\ writes = 0

\* C1: after a successful load each of the four declared identifiers is a key of
\* NODE_CLASS_MAPPINGS and a key of NODE_DISPLAY_NAME_MAPPINGS.
C1_AllIdentifiersPresent ==
    Loaded => \A id \in Identifiers : id \in DOMAIN ncm /\ id \in DOMAIN ndnm

C1_Witness ==
    Loaded /\ loads = 1 /\ "Qwen2.5VL" \in DOMAIN ncm /\ "Qwen" \in DOMAIN ndnm

\* C2: after a successful load both mappings have exactly 4 entries, whose keys are
\* the four declared identifiers and no other.
C2_ExactlyFourEntries ==
    Loaded => /\ Cardinality(DOMAIN ncm) = 4
              /\ Cardinality(DOMAIN ndnm) = 4
              /\ DOMAIN ncm = Identifiers
              /\ DOMAIN ndnm = Identifiers

C2_Witness ==
    Loaded /\ mode = "load" /\ Cardinality(DOMAIN ncm) = 4 /\ Cardinality(DOMAIN ndnm) = 4

\* C3: in NODE_CLASS_MAPPINGS "Qwen2.5VL" and "QwenVL" hold the same class, the
\* imported QwenVL, and "Qwen2.5" and "Qwen" hold the same class, the imported Qwen.
C3_AliasingPreserved ==
    Loaded => /\ {"Qwen2.5VL", "QwenVL", "Qwen2.5", "Qwen"} \subseteq DOMAIN ncm
              /\ ncm["Qwen2.5VL"] = ncm["QwenVL"]
              /\ ncm["QwenVL"] = ns["QwenVL"]
              /\ ncm["Qwen2.5"] = ncm["Qwen"]
              /\ ncm["Qwen"] = ns["Qwen"]

C3_Witness ==
    /\ Loaded
    /\ ns["QwenVL"] # ns["Qwen"]
    /\ ncm["Qwen2.5VL"] = ClassObject("QwenVL")
    /\ ncm["Qwen2.5"] = ClassObject("Qwen")

\* C4: every key of NODE_DISPLAY_NAME_MAPPINGS maps to the string that is the key.
C4_DisplayNameIsKey ==
    Loaded => /\ \A k \in DOMAIN ndnm : ndnm[k] = k
              /\ "Qwen2.5VL" \in DOMAIN ndnm

C4_Witness ==
    Loaded /\ Identifiers \subseteq DOMAIN ndnm /\ ndnm["Qwen2.5VL"] = "Qwen2.5VL"

\* C5: every later load builds mappings equal in content to those of the first
\* successful load; nothing the old mappings held, host additions included, is
\* carried over.
C5_ReloadIdempotent ==
    Loaded => first.set /\ ncm = first.ncm /\ ndnm = first.ndnm

\* A reload has completed over mappings to which the host had added a key.
C5_Witness ==
    /\ Loaded
    /\ mode = "reload"
    /\ prev.set
    /\ "Extra" \in DOMAIN prev.ncm
    /\ "Extra" \in DOMAIN prev.ndnm
    /\ "Extra" \notin DOMAIN ncm

\* C6: whenever control is with the host the two mappings are bound together or not
\* at all, and after a load that failed neither is bound and the host holds no module.
C6_AllOrNothing ==
    pc = "idle" =>
        /\ ("NODE_CLASS_MAPPINGS" \in DOMAIN ns) <=> ("NODE_DISPLAY_NAME_MAPPINGS" \in DOMAIN ns)
        /\ error.exc # "none" =>
              /\ "NODE_CLASS_MAPPINGS" \notin DOMAIN ns
              /\ "NODE_DISPLAY_NAME_MAPPINGS" \notin DOMAIN ns
              /\ ~registered

\* The import went through and the class display then raised.
C6_Witness ==
    pc = "idle" /\ error.exc = "NameError" /\ nodes_mod.loaded /\ DOMAIN ns # {}

OnlyBinds(name) ==
    /\ DOMAIN ns' = DOMAIN ns \cup {name}
    /\ \A n \in DOMAIN ns \ {name} : ns'[n] = ns[n]
    /\ nodes_mod' = nodes_mod

\* Once a load has returned, the namespace changes only by a host write.
QuietAfterLoad ==
    (pc = "idle" /\ registered /\ ns' # ns) => (HostWriteClass \/ HostWriteDisplay)

C9_SameKeys ==
    Loaded => DOMAIN ncm = DOMAIN ndnm

C9_Witness ==
    Loaded /\ DOMAIN ncm = DOMAIN ndnm /\ "Qwen2.5" \in DOMAIN ncm /\ ncm # ndnm

\* The display whose pairs are those of `pairs` taken in the order p.
Permuted(pairs, p) == [i \in DOMAIN pairs |-> pairs[p[i]]]

\* The number of entries of a literal written under key k.
Occurrences(literal, k) == Cardinality({i \in DOMAIN literal : literal[i].key = k})

\* C10: every key of either mapping is written exactly once in its literal, and
\* inserting the pairs of the literal in any other order builds the same mapping.
C10_NoDuplicateKeys ==
    Loaded =>
        /\ \A i \in DOMAIN ClassLiteral : Occurrences(ClassLiteral, ClassLiteral[i].key) = 1
        /\ \A i \in DOMAIN DisplayLiteral : Occurrences(DisplayLiteral, DisplayLiteral[i].key) = 1
        /\ \A p \in Permutations(DOMAIN ClassLiteral) :
              DictDisplay(Permuted(Resolved(ns, ClassLiteral), p)) = ncm
        /\ \A p \in Permutations(DOMAIN DisplayLiteral) :
              DictDisplay(Permuted(DisplayLiteral, p)) = ndnm

C10_Witness ==
    /\ Loaded
    /\ Len(ClassLiteral) = Cardinality(DOMAIN ncm)
    /\ Len(DisplayLiteral) = Cardinality(DOMAIN ndnm)
    /\ ncm["Qwen"] # ncm["QwenVL"]

====
